---- MODULE Spec2Model ----
(***************************************************************************)
(* A model of prompt_gen/cli.py: ProjectContextReader, its exclusion       *)
(* matcher (_should_exclude), its tree renderer                            *)
(* (display_project_structure) and its content reader (read_files), run    *)
(* against a small fixed file system.                                      *)
(*                                                                         *)
(* Strings that the code matches with fnmatch are sequences of one-        *)
(* character strings, so that glob matching, basename, split and abspath   *)
(* are computed character by character.  A path is the sequence of its     *)
(* segments below "/".                                                      *)
(***************************************************************************)
EXTENDS Integers, Sequences, FiniteSets, TLC

\* Python's None, and a present optional value.
None == <<>>
Some(x) == <<x>>

(***************************************************************************)
(* Bounds of the model.                                                    *)
(***************************************************************************)
\* max_depth is None or one of 0..MaxDepthArg.
MaxDepthArg == 2
\* read_files is called at most MaxReads times on the one reader instance.
MaxReads == 2

(***************************************************************************)
(* The file system the program runs against.                               *)
(***************************************************************************)
\* The process's working directory, /w.
cwd == << <<"w">> >>

\* Directories: the names os.listdir / os.scandir yield, in the order the
\* operating system yields them, and what listing the directory does:
\* "ok", "perm" (PermissionError) or "oserr" (another OSError).
DirTable ==
  { [path |-> << >>, listing |-> << <<"w">>, <<"p">>, <<"e">> >>, status |-> "ok"],
    [path |-> << <<"w">> >>, listing |-> << <<"n">> >>, status |-> "ok"],
    [path |-> << <<"w">>, <<"n">> >>, listing |-> << >>, status |-> "ok"],
    [path |-> << <<"p">> >>,
     listing |-> << <<"r",".","t">>, <<"n">>, <<"z",".","p">>, <<"a">>,
                    <<"m",".","t">>, <<"q">>, <<"h">>, <<"g",".","t">> >>,
     status |-> "ok"],
    [path |-> << <<"p">>, <<"a">> >>,
     listing |-> << <<"x",".","t">>, <<"b">>, <<"e">>, <<"y",".","t">>,
                    <<"u",".","t">>, <<"o">> >>,
     status |-> "ok"],
    [path |-> << <<"p">>, <<"a">>, <<"b">> >>,
     listing |-> << <<"c",".","t">> >>, status |-> "ok"],
    [path |-> << <<"p">>, <<"n">> >>, listing |-> << <<"k">> >>, status |-> "ok"],
    [path |-> << <<"p">>, <<"n">>, <<"k">> >>,
     listing |-> << <<"i",".","t">> >>, status |-> "ok"],
    [path |-> << <<"p">>, <<"h">> >>, listing |-> << <<"s",".","t">> >>, status |-> "perm"],
    [path |-> << <<"e">> >>, listing |-> << <<"v">>, <<"d",".","t">> >>, status |-> "ok"],
    [path |-> << <<"e">>, <<"v">> >>, listing |-> << <<"f",".","t">> >>, status |-> "oserr"] }

\* Regular files.  access: what opening the file does ("ok", "perm" for
\* PermissionError, "io" for another OSError); high: whether one of its
\* first 1024 bytes is 0 or above 127; detected: the encoding chardet
\* reports (None when it reports none, "unknown" for a name Python has no
\* codec for, "mismatch" for a codec under which decoding the file raises
\* UnicodeDecodeError); len: the number of characters of the file decoded
\* with the detected (or default) encoding; lossy_len: the number of
\* characters of its bytes decoded as UTF-8 with errors='replace'.
FileTable ==
  { [path |-> << <<"p">>, <<"m",".","t">> >>, access |-> "ok", high |-> FALSE,
     detected |-> Some("utf-8"), len |-> 40, lossy_len |-> 40],
    [path |-> << <<"p">>, <<"r",".","t">> >>, access |-> "ok", high |-> FALSE,
     detected |-> Some("ascii"), len |-> 40, lossy_len |-> 40],
    [path |-> << <<"p">>, <<"g",".","t">> >>, access |-> "ok", high |-> FALSE,
     detected |-> Some("utf-8"), len |-> 200, lossy_len |-> 200],
    [path |-> << <<"p">>, <<"q">> >>, access |-> "ok", high |-> TRUE,
     detected |-> None, len |-> 9, lossy_len |-> 12],
    [path |-> << <<"p">>, <<"z",".","p">> >>, access |-> "ok", high |-> TRUE,
     detected |-> None, len |-> 30, lossy_len |-> 33],
    [path |-> << <<"p">>, <<"a">>, <<"x",".","t">> >>, access |-> "perm", high |-> FALSE,
     detected |-> Some("utf-8"), len |-> 4, lossy_len |-> 4],
    [path |-> << <<"p">>, <<"a">>, <<"y",".","t">> >>, access |-> "io", high |-> FALSE,
     detected |-> Some("utf-8"), len |-> 4, lossy_len |-> 4],
    [path |-> << <<"p">>, <<"a">>, <<"u",".","t">> >>, access |-> "ok", high |-> FALSE,
     detected |-> Some("unknown"), len |-> 6, lossy_len |-> 6],
    [path |-> << <<"p">>, <<"a">>, <<"e">> >>, access |-> "ok", high |-> FALSE,
     detected |-> None, len |-> 3, lossy_len |-> 3],
    [path |-> << <<"p">>, <<"a">>, <<"o">> >>, access |-> "perm", high |-> FALSE,
     detected |-> None, len |-> 2, lossy_len |-> 2],
    [path |-> << <<"p">>, <<"a">>, <<"b">>, <<"c",".","t">> >>, access |-> "ok", high |-> TRUE,
     detected |-> Some("mismatch"), len |-> 8, lossy_len |-> 11],
    [path |-> << <<"p">>, <<"n">>, <<"k">>, <<"i",".","t">> >>, access |-> "ok", high |-> FALSE,
     detected |-> Some("utf-8"), len |-> 5, lossy_len |-> 5],
    [path |-> << <<"p">>, <<"h">>, <<"s",".","t">> >>, access |-> "ok", high |-> FALSE,
     detected |-> Some("utf-8"), len |-> 5, lossy_len |-> 5],
    [path |-> << <<"e">>, <<"d",".","t">> >>, access |-> "ok", high |-> FALSE,
     detected |-> Some("utf-8"), len |-> 5, lossy_len |-> 5],
    [path |-> << <<"e">>, <<"v">>, <<"f",".","t">> >>, access |-> "ok", high |-> FALSE,
     detected |-> Some("utf-8"), len |-> 5, lossy_len |-> 5] }

DirPaths == { d.path : d \in DirTable }
FilePaths == { f.path : f \in FileTable }
DirAt(p) == CHOOSE d \in DirTable : d.path = p
FileAt(p) == CHOOSE f \in FileTable : f.path = p

\* os.path.exists, os.path.isdir, os.path.isfile on an absolute path.
exists(p) == p \in DirPaths \cup FilePaths
isdir(p) == p \in DirPaths
isfile(p) == p \in FilePaths

(***************************************************************************)
(* Strings: str.split, str.startswith, os.path.basename, os.path.abspath,  *)
(* '/'.join and fnmatch.fnmatch, on sequences of characters.               *)
(***************************************************************************)
\* The least index of "/" in s, 0 when there is none.
RECURSIVE find_sep(_, _)
find_sep(s, i) ==
  IF i > Len(s) THEN 0
  ELSE IF s[i] = "/" THEN i
  ELSE find_sep(s, i + 1)

\* s.split('/')
RECURSIVE split(_)
split(s) ==
  LET i == find_sep(s, 1) IN
  IF i = 0 THEN << s >>
  ELSE << SubSeq(s, 1, i - 1) >> \o split(SubSeq(s, i + 1, Len(s)))

\* '/'.join(parts)
RECURSIVE join(_)
join(parts) ==
  IF Len(parts) = 0 THEN << >>
  ELSE IF Len(parts) = 1 THEN parts[1]
  ELSE join(SubSeq(parts, 1, Len(parts) - 1)) \o << "/" >> \o parts[Len(parts)]

\* s.startswith(t)
startswith(s, t) == Len(t) <= Len(s) /\ SubSeq(s, 1, Len(t)) = t

\* os.path.basename(s): what follows the last '/'.
basename(s) == LET parts == split(s) IN parts[Len(parts)]

\* posixpath.normpath on the segments of an absolute path: empty and "."
\* segments are dropped, ".." removes the segment before it.
RECURSIVE normpath(_, _)
normpath(done, rest) ==
  IF rest = << >> THEN done
  ELSE LET seg == Head(rest) IN
       IF seg = << >> \/ seg = << "." >> THEN normpath(done, Tail(rest))
       ELSE IF seg = << ".", "." >>
            THEN normpath(IF done = << >> THEN done ELSE SubSeq(done, 1, Len(done) - 1),
                          Tail(rest))
       ELSE normpath(Append(done, seg), Tail(rest))

\* os.path.abspath(s), as the segments of the absolute path: a relative
\* string is joined to the working directory first.
abspath(s) ==
  IF Len(s) > 0 /\ s[1] = "/" THEN normpath(<< >>, split(s))
  ELSE normpath(<< >>, cwd \o split(s))

\* The string of an absolute path: "/" + '/'.join(segments).
path_str(p) == << "/" >> \o join(p)

\* fnmatch.fnmatch(name, pat) on POSIX (normcase is the identity): '*'
\* matches any run of characters, '/' included, '?' any one character,
\* any other character itself.  (The patterns of the model hold no '['.)
RECURSIVE fnmatch_from(_, _, _, _)
fnmatch_from(name, i, pat, j) ==
  IF j > Len(pat) THEN i > Len(name)
  ELSE IF pat[j] = "*"
       THEN fnmatch_from(name, i, pat, j + 1)
            \/ (i <= Len(name) /\ fnmatch_from(name, i + 1, pat, j))
  ELSE IF pat[j] = "?"
       THEN i <= Len(name) /\ fnmatch_from(name, i + 1, pat, j + 1)
  ELSE i <= Len(name) /\ name[i] = pat[j] /\ fnmatch_from(name, i + 1, pat, j + 1)

fnmatch(name, pat) == fnmatch_from(name, 1, pat, 1)

(***************************************************************************)
(* ProjectContextReader._should_exclude                                    *)
(***************************************************************************)
\* One pattern normalized: the absolute path's string when the pattern
\* names an existing entry (relative to the working directory), the
\* pattern itself otherwise.
norm_pattern(pattern) ==
  IF exists(abspath(pattern)) THEN path_str(abspath(pattern)) ELSE pattern

normalized_patterns(exclude_patterns) ==
  { norm_pattern(pattern) : pattern \in exclude_patterns }

\* The loop over the ancestors of full_path: some prefix of the path,
\* joined, matches some pattern, or some single segment does.  The inner
\* generator ranges over all the normalized patterns.
parent_matches(full_path, patterns) ==
  LET path_parts == split(full_path) IN
  \E i \in 1..Len(path_parts) :
    \E pattern \in patterns :
      \/ fnmatch(join(SubSeq(path_parts, 1, i)), pattern)
      \/ fnmatch(path_parts[i], pattern)

path_matches_pattern(full_path, pattern, patterns) ==
  \/ isdir(abspath(pattern)) /\ startswith(full_path, pattern \o << "/" >>)
  \/ fnmatch(basename(full_path), basename(pattern))
  \/ fnmatch(full_path, pattern \o << "*" >>)
  \/ parent_matches(full_path, patterns)

\* _should_exclude(path, exclude_patterns), path given by its segments.
should_exclude(path, exclude_patterns) ==
  LET normalized_path == path_str(path)
      patterns == normalized_patterns(exclude_patterns)
  IN \E pattern \in patterns : path_matches_pattern(normalized_path, pattern, patterns)

(***************************************************************************)
(* Binary and encoding detection, and reading one file.                    *)
(***************************************************************************)
\* The greatest index of "." in name, 0 when there is none.
RECURSIVE rfind_dot(_, _)
rfind_dot(name, i) ==
  IF i = 0 THEN 0
  ELSE IF name[i] = "." THEN i
  ELSE rfind_dot(name, i - 1)

\* mimetypes.guess_type(file_path)[0], from the extension of the last
\* segment: <<major type with its slash, subtype>>, or None.
guess_type(file_path) ==
  LET name == file_path[Len(file_path)]
      dot == rfind_dot(name, Len(name))
      ext == IF dot <= 1 THEN << >> ELSE SubSeq(name, dot + 1, Len(name))
  IN IF ext = << "t" >> THEN Some(<< "text/", "plain" >>)
     ELSE IF ext = << "p" >> THEN Some(<< "image/", "png" >>)
     ELSE IF ext = << "j" >> THEN Some(<< "application/", "javascript" >>)
     ELSE None

binary_types == { "application/", "image/", "audio/", "video/", "font/", "model/" }

\* _is_binary_file: by MIME type when the name gives one, by the first
\* 1024 bytes otherwise; any exception (the file cannot be opened) gives
\* True.
is_binary_file(file_path) ==
  LET mime_type == guess_type(file_path) IN
  IF mime_type = None
  THEN IF FileAt(file_path).access # "ok" THEN TRUE ELSE FileAt(file_path).high
  ELSE mime_type[1][1] \in binary_types

\* _get_file_encoding: None for a binary file, 'utf-8' when the file cannot
\* be opened or chardet reports no encoding, chardet's answer otherwise.
get_file_encoding(file_path) ==
  IF is_binary_file(file_path) THEN None
  ELSE IF FileAt(file_path).access # "ok" THEN Some("utf-8")
  ELSE IF FileAt(file_path).detected = None THEN Some("utf-8")
  ELSE FileAt(file_path).detected

\* The read of one file: open(file_path, 'r', encoding=encoding or
\* 'utf-8') and f.read(), with the fallback to bytes decoded with
\* errors='replace' on UnicodeDecodeError.  kind is "content" (len is
\* len(content)) or the exception that leaves the inner try.
read_content(file_path) ==
  LET detected == get_file_encoding(file_path)
      encoding == IF detected = None THEN "utf-8" ELSE detected[1]
      f == FileAt(file_path)
  IN IF f.access = "perm"
     THEN [kind |-> "PermissionError", len |-> 0, detail |-> "Permission denied"]
     ELSE IF f.access = "io"
     THEN [kind |-> "IOError", len |-> 0, detail |-> "Input/output error"]
     ELSE IF encoding = "unknown"
     THEN [kind |-> "Exception", len |-> 0, detail |-> "unknown encoding: unknown"]
     ELSE IF encoding = "mismatch"
     THEN [kind |-> "content", len |-> f.lossy_len, detail |-> ""]
     ELSE [kind |-> "content", len |-> f.len, detail |-> ""]

(***************************************************************************)
(* Directory listings.                                                     *)
(***************************************************************************)
\* The characters of the model in increasing code point order.
CodePoints ==
  << "*", ".", "/", "?", "a", "b", "c", "d", "e", "f", "g", "h", "i", "j", "k", "l", "m",
     "n", "o", "p", "q", "r", "s", "t", "u", "v", "w", "x", "y", "z" >>
ord(c) == CHOOSE i \in 1..Len(CodePoints) : CodePoints[i] = c

\* a < b for Python strings: lexicographic by code point.
RECURSIVE str_less(_, _)
str_less(a, b) ==
  IF b = << >> THEN FALSE
  ELSE IF a = << >> THEN TRUE
  ELSE IF ord(Head(a)) # ord(Head(b)) THEN ord(Head(a)) < ord(Head(b))
  ELSE str_less(Tail(a), Tail(b))

\* One name inserted into a sorted list.
RECURSIVE insert_sorted(_, _)
insert_sorted(name, names) ==
  IF names = << >> THEN << name >>
  ELSE IF str_less(name, Head(names)) THEN << name >> \o names
  ELSE << Head(names) >> \o insert_sorted(name, Tail(names))

\* sorted(names)
RECURSIVE sorted(_)
sorted(names) ==
  IF names = << >> THEN << >>
  ELSE insert_sorted(Head(names), sorted(Tail(names)))

\* os.path.join(directory, entry)
path_join(directory, entry) == Append(directory, entry)

\* (os_walk_unpruned is the walk whose dirs the caller does not prune.)
RECURSIVE os_walk_unpruned(_, _)
RECURSIVE os_walk_unpruned_each(_, _, _)
os_walk_unpruned(top, excl) ==
  IF DirAt(top).status # "ok" THEN << >>
  ELSE LET entries == DirAt(top).listing
           dirs == SelectSeq(entries, LAMBDA d : isdir(path_join(top, d)))
       IN << top >> \o os_walk_unpruned_each(top, dirs, excl)
os_walk_unpruned_each(top, dirs, excl) ==
  IF dirs = << >> THEN << >>
  ELSE os_walk_unpruned(path_join(top, Head(dirs)), excl)
       \o os_walk_unpruned_each(top, Tail(dirs), excl)

\* os.walk(top) with the caller's in-place pruning of dirs: the sequence of
\* directories yielded as root, top down.  A directory that cannot be
\* listed yields nothing (os.walk ignores the error); the subdirectories
\* for which _should_exclude holds are removed before the descent.
RECURSIVE os_walk(_, _)
RECURSIVE os_walk_each(_, _, _)
os_walk(top, excl) ==
  IF DirAt(top).status # "ok" THEN << >>
  ELSE LET entries == DirAt(top).listing
           dirs == SelectSeq(entries, LAMBDA d : isdir(path_join(top, d)))
           kept == SelectSeq(dirs, LAMBDA d : ~should_exclude(path_join(top, d), excl))
       IN << top >> \o os_walk_each(top, kept, excl)
os_walk_each(top, dirs, excl) ==
  IF dirs = << >> THEN << >>
  ELSE os_walk(path_join(top, Head(dirs)), excl) \o os_walk_each(top, Tail(dirs), excl)

\* The files of one yielded directory that read_files selects.
files_of(root, excl) ==
  LET entries == DirAt(root).listing
      files == SelectSeq(entries, LAMBDA e : ~isdir(path_join(root, e)))
      kept == SelectSeq(files, LAMBDA e : ~should_exclude(path_join(root, e), excl))
  IN [i \in 1..Len(kept) |-> path_join(root, kept[i])]

\* s[n-1:] for Python's s[len(path):]: the string from character n on.
str_from(s, n) == SubSeq(s, n, Len(s))

\* s.count(os.path.sep)
RECURSIVE count_sep(_)
count_sep(s) ==
  IF s = << >> THEN 0
  ELSE (IF Head(s) = "/" THEN 1 ELSE 0) + count_sep(Tail(s))

\* The body of the walk loop over the yielded directories: the depth
\* control, then the files.
RECURSIVE walk_files(_, _, _, _)
walk_files(path, roots, excl, depth_limit) ==
  IF roots = << >> THEN << >>
  ELSE LET root == Head(roots)
           current_depth == count_sep(str_from(path_str(root), Len(path_str(path)) + 1))
           here == IF depth_limit # None /\ current_depth >= depth_limit[1]
                   THEN << >>
                   ELSE files_of(root, excl)
       IN here \o walk_files(path, Tail(roots), excl, depth_limit)

\* The files one requested path contributes to all_files_to_process.
collect_path(path_arg, excl, depth_limit) ==
  LET path == abspath(path_arg) IN
  IF ~exists(path) THEN << >>
  ELSE IF isfile(path)
       THEN IF ~should_exclude(path, excl) THEN << path >> ELSE << >>
  ELSE walk_files(path, os_walk(path, excl), excl, depth_limit)

RECURSIVE collect_files(_, _, _)
collect_files(path_args, excl, depth_limit) ==
  IF path_args = << >> THEN << >>
  ELSE collect_path(Head(path_args), excl, depth_limit)
       \o collect_files(Tail(path_args), excl, depth_limit)

\* The directories read_files lists: every directory os.walk yields, over
\* the requested paths in order.
RECURSIVE walked_dirs(_, _)
walked_dirs(path_args, excl) ==
  IF path_args = << >> THEN << >>
  ELSE LET path == abspath(Head(path_args)) IN
       (IF isdir(path) THEN os_walk(path, excl) ELSE << >>)
       \o walked_dirs(Tail(path_args), excl)

(***************************************************************************)
(* State.                                                                  *)
(***************************************************************************)
VARIABLES
  paths,                \* the requested paths, as the caller wrote them
  exclude_patterns,     \* the exclusion set of the calls
  max_depth,            \* None or Some(d)
  input_limit,          \* self.input_limit
  max_file_size,        \* self.max_file_size
  total_length,         \* self.total_length
  processed_files,      \* self.processed_files
  skipped_files,        \* self.skipped_files: <<path, reason>> pairs
  pc,                   \* where the caller and the running call are
  output,               \* read_files' output list (what it returns, joined)
  all_files_to_process, \* read_files' flattened list of files
  idx,                  \* the number of files the processing loop has taken
  visited,              \* the directories read_files' walk has listed
  tree,                 \* display_project_structure's output list
  query,                \* the path of the last direct _should_exclude call
  answer,               \* what that call returned
  reads,                \* the number of read_files calls that have returned
  prev                  \* the outcome of the read_files call before the
                        \* running (or last) one, None when there is none

vars ==
  << paths, exclude_patterns, max_depth, input_limit, max_file_size, total_length,
     processed_files, skipped_files, pc, output, all_files_to_process, idx, visited,
     tree, query, answer, reads, prev >>

args == << paths, exclude_patterns, max_depth, input_limit, max_file_size >>
reader == << total_length, processed_files, skipped_files >>
read_locals == << output, all_files_to_process, idx, visited >>

(***************************************************************************)
(* The inputs the model draws from.                                        *)
(***************************************************************************)
PathArgs ==
  { << <<"/","p">> >>,
    << <<"/","p","/","m",".","t">>, <<"/","p","/","r",".","t">>, <<"/","p","/","a","/","e">> >>,
    << <<"/","e">> >>,
    << <<"/","p","/","n">> >>,
    << <<".",".","/","p","/","a">>, <<"/","x">> >>,
    << <<"/","p","/","q">>, <<"/","p","/","a","/","b">>, <<"/","p","/","m",".","t">> >>,
    << <<"/">>, <<"/","p","/","m",".","t">> >> }

ExcludeSets ==
  { { },
    { <<"n">> },
    { <<"a">> },
    { <<"z","*">>, <<"h">> },
    { <<"*","*","/","b","/","*">> },
    { <<"/","p","/","n">>, <<"b">> } }

DepthArgs == { None } \cup { Some(d) : d \in 0..MaxDepthArg }
InputLimits == { 0, 50, 1000 }
MaxFileSizes == { 10, 100 }

\* The paths a direct _should_exclude call is made with.
QueryPaths == (DirPaths \cup FilePaths) \ { << >> }

(***************************************************************************)
(* display_project_structure                                               *)
(***************************************************************************)
\* One line of the tree: the text is prefix + connector + entry, and "/"
\* for a directory.  path is the entry the line is for and base the
\* requested directory whose tree it belongs to.  A line with connector
\* "raise" stands for an exception leaving build_tree at that directory.
Line(prefix, connector, entry, is_dir, path, base) ==
  [prefix |-> prefix, connector |-> connector, entry |-> entry, is_dir |-> is_dir,
   path |-> path, base |-> base]

\* The box-drawing strings of the tree, in ASCII: Corner is the connector
\* of a last entry (U+2514 U+2500 U+2500 and a space), Tee that of any
\* other entry (U+251C ...), Bar the indentation under a non-last entry
\* (U+2502 and three spaces), Blank that under a last entry.
Corner == "+-- "
Tee == "|-- "
Bar == "|   "
Blank == "    "

RaiseLine(directory, base) == Line(<< >>, "raise", << >>, FALSE, directory, base)

\* build_tree(directory, prefix, depth) of the requested directory base;
\* max_depth and exclude_patterns are the enclosing call's.
RECURSIVE build_tree(_, _, _, _)
RECURSIVE build_entries(_, _, _, _, _, _)
build_tree(directory, prefix, depth, base) ==
  IF max_depth # None /\ depth > max_depth[1] THEN << >>
  ELSE IF DirAt(directory).status = "perm" THEN << >>
  ELSE IF DirAt(directory).status = "oserr" THEN << RaiseLine(directory, base) >>
  ELSE build_entries(directory, prefix, depth, base, sorted(DirAt(directory).listing), 1)

\* The loop of build_tree from entry number index on.
build_entries(directory, prefix, depth, base, entries, index) ==
  IF index > Len(entries) THEN << >>
  ELSE LET entry == entries[index]
           full_path == path_join(directory, entry)
           is_last == index = Len(entries)
           connector == IF is_last THEN Corner ELSE Tee
           extension == IF is_last THEN Blank ELSE Bar
           rest == build_entries(directory, prefix, depth, base, entries, index + 1)
       IN IF should_exclude(full_path, exclude_patterns) THEN rest
          ELSE << Line(prefix, connector, entry, isdir(full_path), full_path, base) >>
               \o (IF isdir(full_path)
                   THEN build_tree(full_path, Append(prefix, extension), depth + 1, base)
                   ELSE << >>)
               \o rest

\* What one requested path adds to the output list.
display_path(path_arg) ==
  LET base_path == abspath(path_arg) IN
  IF ~exists(base_path) THEN << >>
  ELSE IF isfile(base_path)
       THEN IF ~should_exclude(base_path, exclude_patterns)
            THEN << Line(<< >>, "", basename(path_str(base_path)), FALSE, base_path, base_path) >>
            ELSE << >>
  ELSE << Line(<< >>, "", basename(path_str(base_path)), TRUE, base_path, base_path) >>
       \o build_tree(base_path, << >>, 0, base_path)

RECURSIVE display_lines(_)
display_lines(path_args) ==
  IF path_args = << >> THEN << >>
  ELSE display_path(Head(path_args)) \o display_lines(Tail(path_args))

raises(lines) == \E i \in 1..Len(lines) : lines[i].connector = "raise"

(***************************************************************************)
(* read_files                                                              *)
(***************************************************************************)
\* The values the summary fields are reset to when read_files starts.
\* (kept_skipped_files is the skip list left as the call before left it.)
initial_total_length == 0
initial_processed_files == << >>
kept_skipped_files == skipped_files
initial_skipped_files == << >>

\* The elements read_files appends to its output list.  A file's content
\* is held by the path it was read from and its length in characters.
Header(file_path) == [kind |-> "header", text |-> "\n//", path |-> file_path, len |-> 0]
Content(file_path, n) == [kind |-> "content", text |-> "", path |-> file_path, len |-> n]
Warning ==
  [kind |-> "warning",
   text |-> "\n[WARNING: Total content exceeded " \o ToString(input_limit) \o " characters]",
   path |-> << >>, len |-> 0]

\* The skip reasons.
binary_reason == "Binary file"
too_large_reason == "File too large (>" \o ToString(max_file_size) \o " bytes)"
permission_reason == "Permission Error"
io_reason(detail) == "IO Error: " \o detail
unexpected_reason(detail) == "Unexpected Error: " \o detail

\* The two limits.  (too_large_mixed and over_limit_mixed are the checks
\* with the two limits taken for one another.)
too_large_mixed(content_len) == content_len > input_limit
too_large(content_len) == content_len > max_file_size
over_limit_mixed(total) == total > max_file_size
over_limit(total) == total > input_limit

\* The outcome of a read_files call, as the caller sees it.
outcome ==
  [output |-> output, processed_files |-> processed_files,
   skipped_files |-> skipped_files, total_length |-> total_length]

\* The states in which the caller can make its next call.
Callable == { "idle", "returned", "displayed" }

\* The processing loop has a next file.
InLoop == pc = "reading" /\ idx < Len(all_files_to_process)
current_file == all_files_to_process[idx + 1]

\* (SkipUnrecorded is the iteration that goes on to the next file without
\* recording the skip.)
SkipUnrecorded(reason) ==
  /\ idx' = idx + 1
  /\ UNCHANGED << args, total_length, processed_files, skipped_files, pc, output,
                  all_files_to_process, visited, tree, query, answer, reads, prev >>

\* One iteration that ends in a skip record.
Skip(reason) ==
  /\ skipped_files' = Append(skipped_files, << current_file, reason >>)
  /\ idx' = idx + 1
  /\ UNCHANGED << args, total_length, processed_files, pc, output, all_files_to_process,
                  visited, tree, query, answer, reads, prev >>

\* read_files up to the processing loop: the reset of the summary fields
\* and the flattening of the requested paths.
ReadStart ==
  /\ pc \in Callable
  /\ reads < MaxReads
  /\ prev' = IF reads > 0 THEN Some(outcome) ELSE None
  /\ output' = << >>
  /\ total_length' = initial_total_length
  /\ processed_files' = initial_processed_files
  /\ skipped_files' = initial_skipped_files
  /\ all_files_to_process' = collect_files(paths, exclude_patterns, max_depth)
  /\ visited' = walked_dirs(paths, exclude_patterns)
  /\ idx' = 0
  /\ pc' = "reading"
  /\ tree' = << >>
  /\ query' = None
  /\ answer' = FALSE
  /\ UNCHANGED << args, reads >>

SkipBinary ==
  /\ InLoop
  /\ is_binary_file(current_file)
  /\ Skip(binary_reason)

SkipPermission ==
  /\ InLoop
  /\ ~is_binary_file(current_file)
  /\ read_content(current_file).kind = "PermissionError"
  /\ Skip(permission_reason)

SkipIOError ==
  /\ InLoop
  /\ ~is_binary_file(current_file)
  /\ read_content(current_file).kind = "IOError"
  /\ Skip(io_reason(read_content(current_file).detail))

SkipUnexpected ==
  /\ InLoop
  /\ ~is_binary_file(current_file)
  /\ read_content(current_file).kind = "Exception"
  /\ Skip(unexpected_reason(read_content(current_file).detail))

SkipTooLarge ==
  /\ InLoop
  /\ ~is_binary_file(current_file)
  /\ read_content(current_file).kind = "content"
  /\ too_large(read_content(current_file).len)
  /\ Skip(too_large_reason)

\* The running total after a file of n characters is appended.
\* (set_length is the total assigned, not added to.)
set_length(total, n) == n
add_length(total, n) == total + n

\* Where control goes after a file is appended: out of the loop (break)
\* when the total is over the limit.  (after_append_no_break is the loop
\* without the break.)
after_append_no_break(stop) == "reading"
after_append(stop) == IF stop THEN "summary" ELSE "reading"

\* One iteration that appends a file, and breaks when the total is over
\* the limit.
AppendContent ==
  /\ InLoop
  /\ ~is_binary_file(current_file)
  /\ read_content(current_file).kind = "content"
  /\ ~too_large(read_content(current_file).len)
  /\ LET n == read_content(current_file).len
         stop == over_limit(add_length(total_length, n))
     IN /\ processed_files' = Append(processed_files, current_file)
        /\ total_length' = add_length(total_length, n)
        /\ output' = output \o << Header(current_file), Content(current_file, n) >>
                       \o (IF stop THEN << Warning >> ELSE << >>)
        /\ pc' = after_append(stop)
  /\ idx' = idx + 1
  /\ UNCHANGED << args, skipped_files, all_files_to_process, visited, tree, query,
                  answer, reads, prev >>

\* The loop is over (exhausted or left by break): the summary is printed
\* and the joined output returned.
ReadReturn ==
  /\ \/ pc = "summary"
     \/ pc = "reading" /\ idx = Len(all_files_to_process)
  /\ pc' = "returned"
  /\ reads' = reads + 1
  /\ UNCHANGED << args, reader, read_locals, tree, query, answer, prev >>

(***************************************************************************)
(* The other calls.                                                        *)
(***************************************************************************)
\* display_project_structure returns its lines.
DisplayReturn ==
  /\ pc \in Callable
  /\ ~raises(display_lines(paths))
  /\ tree' = display_lines(paths)
  /\ pc' = "displayed"
  /\ query' = None
  /\ answer' = FALSE
  /\ UNCHANGED << args, reader, read_locals, reads, prev >>

\* display_project_structure is left by an exception of os.listdir that
\* build_tree does not catch.
DisplayRaise ==
  /\ pc \in Callable
  /\ raises(display_lines(paths))
  /\ tree' = << >>
  /\ pc' = "raised"
  /\ query' = None
  /\ answer' = FALSE
  /\ UNCHANGED << args, reader, read_locals, reads, prev >>

\* A direct call of _should_exclude on a fresh reader, as the tests make.
ShouldExcludeCall ==
  /\ pc = "idle"
  /\ \E q \in QueryPaths :
       /\ query' = Some(q)
       /\ answer' = should_exclude(q, exclude_patterns)
  /\ pc' = "answered"
  /\ tree' = << >>
  /\ UNCHANGED << args, reader, read_locals, reads, prev >>

(***************************************************************************)
(* The specification.                                                      *)
(***************************************************************************)
Init ==
  /\ paths \in PathArgs
  /\ exclude_patterns \in ExcludeSets
  /\ max_depth \in DepthArgs
  /\ input_limit \in InputLimits
  /\ max_file_size \in MaxFileSizes
  /\ total_length = 0
  /\ processed_files = << >>
  /\ skipped_files = << >>
  /\ pc = "idle"
  /\ output = << >>
  /\ all_files_to_process = << >>
  /\ idx = 0
  /\ visited = << >>
  /\ tree = << >>
  /\ query = None
  /\ answer = FALSE
  /\ reads = 0
  /\ prev = None

Next ==
  \/ ReadStart
  \/ SkipBinary
  \/ SkipPermission
  \/ SkipIOError
  \/ SkipUnexpected
  \/ SkipTooLarge
  \/ AppendContent
  \/ ReadReturn
  \/ DisplayReturn
  \/ DisplayRaise
  \/ ShouldExcludeCall

Spec == Init /\ [][Next]_vars

(***************************************************************************)
(* Vocabulary of the properties.                                           *)
(***************************************************************************)
Range(seq) == { seq[i] : i \in 1..Len(seq) }

\* A read_files call is running or has returned.
InPass == pc \in { "reading", "summary", "returned" }

\* The path is a directory whose name matches one of the patterns as
\* written, or lies beneath such a directory.
UnderMatchingDir(path, patterns) ==
  \E k \in 1..Len(path) :
    /\ isdir(SubSeq(path, 1, k))
    /\ \E pattern \in patterns : fnmatch(path[k], pattern)

\* The requested paths, absolute.
RequestedRoots == { abspath(paths[i]) : i \in 1..Len(paths) }

\* Lines i and j of the tree are entries of the same directory.
Siblings(i, j) ==
  /\ tree[i].base = tree[j].base
  /\ Len(tree[i].path) = Len(tree[j].path)
  /\ SubSeq(tree[i].path, 1, Len(tree[i].path) - 1)
       = SubSeq(tree[j].path, 1, Len(tree[j].path) - 1)

\* Line i is the last entry shown for its directory.
LastShown(i) == \A j \in (i + 1)..Len(tree) : ~Siblings(i, j)

\* Line j is an entry of the directory line i is for.
ChildLine(i, j) ==
  /\ tree[i].base = tree[j].base
  /\ Len(tree[j].path) = Len(tree[i].path) + 1
  /\ SubSeq(tree[j].path, 1, Len(tree[i].path)) = tree[i].path

(***************************************************************************)
(* C1.  Exclusion is subtree-closed: when a pattern of the exclusion set   *)
(* matches a directory's name, _should_exclude is true of that directory   *)
(* and of every path beneath it, and no such path is in the output of      *)
(* display_project_structure or of read_files.                             *)
(***************************************************************************)
C1_ExclusionSubtreeClosed ==
  /\ pc = "answered" /\ UnderMatchingDir(query[1], exclude_patterns) => answer = TRUE
  /\ pc = "displayed" =>
       \A i \in 1..Len(tree) : ~UnderMatchingDir(tree[i].path, exclude_patterns)
  /\ pc = "returned" =>
       \A i \in 1..Len(output) :
         output[i].kind = "header" => ~UnderMatchingDir(output[i].path, exclude_patterns)

(***************************************************************************)
(* C2.  With input_limit = 50 and two includable text files of 40          *)
(* characters each, the output is the first file's content followed by    *)
(* the warning line, and the second file is neither read nor listed in     *)
(* processed_files.                                                        *)
(***************************************************************************)
\* The files to process start with two text files of 40 characters that
\* pass the size check, and the limit is 50.
TwoFilesOfForty ==
  /\ input_limit = 50
  /\ Len(all_files_to_process) >= 2
  /\ \A i \in 1..2 :
       /\ ~is_binary_file(all_files_to_process[i])
       /\ read_content(all_files_to_process[i]) = [kind |-> "content", len |-> 40, detail |-> ""]
       /\ ~too_large(40)

C2_SecondFileNotRead ==
  pc = "returned" /\ TwoFilesOfForty =>
    /\ output = << Header(all_files_to_process[1]), Content(all_files_to_process[1], 40),
                   Warning >>
    /\ processed_files = << all_files_to_process[1] >>

\* C2 as amended: 40 does not exceed 50, so the second file is read too;
\* the output is both files' headers and contents and then the warning
\* line, both files are in processed_files, and no file after the second
\* is taken.
C2_BothFilesThenWarning ==
  pc = "returned" /\ TwoFilesOfForty =>
    /\ output = << Header(all_files_to_process[1]), Content(all_files_to_process[1], 40),
                   Header(all_files_to_process[2]), Content(all_files_to_process[2], 40),
                   [kind |-> "warning",
                    text |-> "\n[WARNING: Total content exceeded 50 characters]",
                    path |-> << >>, len |-> 0] >>
    /\ processed_files = << all_files_to_process[1], all_files_to_process[2] >>
    /\ skipped_files = << >>
    /\ total_length = 80
    /\ idx = 2

C2_Witness ==
  /\ pc = "returned"
  /\ TwoFilesOfForty
  /\ Len(all_files_to_process) > 2
  /\ Len(output) = 5

(***************************************************************************)
(* C3.  In the tree, the last entry shown for a directory has the corner   *)
(* connector and every other entry the tee; the lines beneath a non-last   *)
(* entry carry the bar at that level and those beneath a last entry four   *)
(* spaces; for any exclusion set.                                          *)
(***************************************************************************)
C3_TreeConnectors ==
  pc = "displayed" =>
    \A i \in 1..Len(tree) :
      /\ tree[i].connector # "" =>
           tree[i].connector = (IF LastShown(i) THEN Corner ELSE Tee)
      /\ \A j \in 1..Len(tree) :
           ChildLine(i, j) =>
             tree[j].prefix =
               (IF tree[i].connector = "" THEN << >>
                ELSE Append(tree[i].prefix, IF LastShown(i) THEN Blank ELSE Bar))

(***************************************************************************)
(* C4.  With max_depth = d the tree shows no entry more than d directory   *)
(* levels beneath the walked root.                                         *)
(***************************************************************************)
C4_MaxDepthBound ==
  pc = "displayed" /\ max_depth # None =>
    \A i \in 1..Len(tree) : Len(tree[i].path) - Len(tree[i].base) <= max_depth[1]

(***************************************************************************)
(* C5.  A binary file that survives exclusion and depth filtering never    *)
(* has its content in the output, is not in processed_files, and after     *)
(* the call is in skipped_files with reason "Binary file", for any         *)
(* input_limit and any position in the traversal order.                    *)
(***************************************************************************)
C5_BinaryAlwaysSkipped ==
  pc = "returned" =>
    \A i \in 1..Len(all_files_to_process) :
      is_binary_file(all_files_to_process[i]) =>
        /\ << all_files_to_process[i], "Binary file" >> \in Range(skipped_files)
        /\ all_files_to_process[i] \notin Range(processed_files)
        /\ \A k \in 1..Len(output) : output[k].path # all_files_to_process[i]

\* C5 as amended: the skip record is there once the loop has reached the
\* file; a binary file after the one at which the total went over
\* input_limit is not reached and is recorded nowhere.
C5_BinarySkippedWhenReached ==
  InPass =>
    \A i \in 1..Len(all_files_to_process) :
      is_binary_file(all_files_to_process[i]) =>
        /\ all_files_to_process[i] \notin Range(processed_files)
        /\ \A k \in 1..Len(output) : output[k].path # all_files_to_process[i]
        /\ i <= idx => << all_files_to_process[i], "Binary file" >> \in Range(skipped_files)
        /\ i > idx =>
             \A k \in 1..Len(skipped_files) :
               skipped_files[k][1] = all_files_to_process[i] =>
                 \E j \in 1..idx : all_files_to_process[j] = all_files_to_process[i]

C5_Witness ==
  /\ pc = "returned"
  /\ \E i \in 1..idx : is_binary_file(all_files_to_process[i])
  /\ \E i \in (idx + 1)..Len(all_files_to_process) : is_binary_file(all_files_to_process[i])

(***************************************************************************)
(* C6.  A file reached by the loop whose decoded content is longer than    *)
(* max_file_size is recorded in skipped_files with reason                  *)
(* "File too large (>N bytes)", is not added to processed_files, adds      *)
(* nothing to the output and leaves total_length unchanged.                *)
(***************************************************************************)
C6_TooLargeFrame ==
  [][ ( /\ InLoop
        /\ ~is_binary_file(current_file)
        /\ read_content(current_file).kind = "content"
        /\ read_content(current_file).len > max_file_size )
      => ( /\ skipped_files' =
                Append(skipped_files,
                       << current_file,
                          "File too large (>" \o ToString(max_file_size) \o " bytes)" >>)
           /\ processed_files' = processed_files
           /\ output' = output
           /\ total_length' = total_length
           /\ idx' = idx + 1 ) ]_vars

C6_Witness ==
  /\ InPass
  /\ total_length > 0
  /\ skipped_files # << >>
  /\ skipped_files[Len(skipped_files)]
       = << all_files_to_process[idx], "File too large (>100 bytes)" >>
  /\ read_content(all_files_to_process[idx]).len = 200

(***************************************************************************)
(* C7.  read_files is idempotent on one reader: a second call with the     *)
(* same arguments on the unchanged tree returns the same string and        *)
(* leaves the same processed_files, skipped_files and total_length.        *)
(***************************************************************************)
C7_Idempotent ==
  pc = "returned" /\ prev # None => outcome = prev[1]

C7_Witness ==
  /\ pc = "returned"
  /\ prev # None
  /\ processed_files # << >>
  /\ skipped_files # << >>

(***************************************************************************)
(* C8.  No failure on a single path leaves read_files or                   *)
(* display_project_structure: in read_files a file that cannot be          *)
(* classified, opened or decoded gets one skip record and the loop goes    *)
(* on; in display_project_structure a directory that cannot be listed      *)
(* (permission denied or any other OS error) has its children left out     *)
(* and the call returns.                                                   *)
(***************************************************************************)
C8_NoFailureEscapes ==
  /\ pc # "raised"
  /\ InPass =>
       \A i \in 1..idx :
         FileAt(all_files_to_process[i]).access # "ok" =>
           \E k \in 1..Len(skipped_files) : skipped_files[k][1] = all_files_to_process[i]

(***************************************************************************)
(* C9.  During a pass total_length never decreases, and as soon as it is   *)
(* over input_limit the warning is appended, once and last, and the loop   *)
(* stops: no later file is classified, read, processed or skipped.         *)
(***************************************************************************)
WarningCount == Cardinality({ k \in 1..Len(output) : output[k].kind = "warning" })

C9_StopsAtLimit ==
  /\ [][ pc = "reading" => total_length' >= total_length ]_vars
  /\ [][ pc = "summary" => UNCHANGED << reader, read_locals >> ]_vars
  /\ [] ( InPass /\ total_length > input_limit =>
            /\ pc # "reading"
            /\ WarningCount = 1
            /\ output[Len(output)].text
                 = "\n[WARNING: Total content exceeded " \o ToString(input_limit)
                     \o " characters]"
            /\ Len(processed_files) + Len(skipped_files) = idx
            /\ processed_files[Len(processed_files)] = all_files_to_process[idx] )
  /\ [] ( InPass /\ total_length <= input_limit => WarningCount = 0 )

C9_Witness ==
  /\ pc = "returned"
  /\ total_length > input_limit
  /\ idx < Len(all_files_to_process)
  /\ skipped_files # << >>

(***************************************************************************)
(* C10.  Neither call emits a line for, or lists the contents of, a        *)
(* directory for which _should_exclude is true, whether the directory is   *)
(* met during the descent or is itself a requested root.                   *)
(***************************************************************************)
C10_NoExcludedDirectory ==
  /\ pc = "displayed" =>
       \A i \in 1..Len(tree) :
         tree[i].is_dir => ~should_exclude(tree[i].path, exclude_patterns)
  /\ InPass =>
       \A i \in 1..Len(visited) : ~should_exclude(visited[i], exclude_patterns)

\* C10 as amended: it holds of the directories met during the descent; a
\* requested root that is a directory is not checked, its line is emitted
\* and it is listed.
C10_NoExcludedDirectoryInDescent ==
  /\ pc = "displayed" =>
       \A i \in 1..Len(tree) :
         (tree[i].is_dir /\ tree[i].connector # "") =>
           ~should_exclude(tree[i].path, exclude_patterns)
  /\ pc = "displayed" =>
       \A i \in 1..Len(tree) :
         \A k \in (Len(tree[i].base) + 1)..(Len(tree[i].path) - 1) :
           ~should_exclude(SubSeq(tree[i].path, 1, k), exclude_patterns)
  /\ InPass =>
       \A i \in 1..Len(visited) :
         visited[i] \notin RequestedRoots => ~should_exclude(visited[i], exclude_patterns)

C10_Witness ==
  /\ paths = << << "/", "p" >> >>
  /\ exclude_patterns = { << "n" >> }
  /\ max_depth = None
  /\ should_exclude(<< << "p" >>, << "n" >> >>, exclude_patterns)
  /\ \/ pc = "displayed" /\ Len(tree) > 1
     \/ pc = "returned" /\ Len(visited) > 1

(***************************************************************************)
(* C11.  With max_depth = d, read_files selects a file found beneath a     *)
(* directory root only if the number of directory levels between the root  *)
(* and the directory holding the file is less than d (a file directly in   *)
(* the root has depth 0, so max_depth = 0 selects none); a root that is    *)
(* itself a file is selected whatever max_depth is.                        *)
(***************************************************************************)
\* The file lies beneath the directory root, its directory fewer than d
\* levels below the root.
WithinDepth(file_path, root, d) ==
  /\ isdir(root)
  /\ Len(file_path) > Len(root)
  /\ SubSeq(file_path, 1, Len(root)) = root
  /\ Len(file_path) - 1 - Len(root) < d

C11_DepthLimit ==
  InPass /\ max_depth # None =>
    /\ \A i \in 1..Len(all_files_to_process) :
         \/ all_files_to_process[i] \in RequestedRoots
         \/ \E root \in RequestedRoots :
              WithinDepth(all_files_to_process[i], root, max_depth[1])
    /\ \A root \in RequestedRoots :
         (isfile(root) /\ ~should_exclude(root, exclude_patterns)) =>
           root \in Range(all_files_to_process)

(***************************************************************************)
(* C12.  At every point of the processing loop and at return, total_length *)
(* is the sum of the content lengths of the entries of processed_files,    *)
(* the output holds one header followed by its content for each entry of   *)
(* processed_files, in the same order, and every file the loop has visited *)
(* is recorded in exactly one of processed_files and skipped_files.        *)
(***************************************************************************)
RECURSIVE ContentSum(_)
ContentSum(files) ==
  IF files = << >> THEN 0
  ELSE read_content(Head(files)).len + ContentSum(Tail(files))

RECURSIVE Framed(_)
Framed(files) ==
  IF files = << >> THEN << >>
  ELSE << Header(Head(files)), Content(Head(files), read_content(Head(files)).len) >>
         \o Framed(Tail(files))

IsFileElement(element) == element.kind # "warning"

Occurrences(seq, x) == Cardinality({ k \in 1..Len(seq) : seq[k] = x })

SkippedPaths == [ k \in 1..Len(skipped_files) |-> skipped_files[k][1] ]

VisitedFiles == SubSeq(all_files_to_process, 1, idx)

C12_Accounting ==
  InPass =>
    /\ total_length = ContentSum(processed_files)
    /\ SelectSeq(output, IsFileElement) = Framed(processed_files)
    /\ Len(processed_files) + Len(skipped_files) = idx
    /\ \A file_path \in Range(VisitedFiles) :
         /\ ~( file_path \in Range(processed_files) /\ file_path \in Range(SkippedPaths) )
         /\ Occurrences(processed_files, file_path) + Occurrences(SkippedPaths, file_path)
              = Occurrences(VisitedFiles, file_path)

C12_Witness ==
  /\ pc = "returned"
  /\ Len(processed_files) >= 2
  /\ skipped_files # << >>
  /\ total_length > read_content(processed_files[Len(processed_files)]).len
  /\ \E file_path \in Range(processed_files) : Occurrences(VisitedFiles, file_path) = 2

====
